---- MODULE Spec2Model ----
(***************************************************************************)
(* A model of src/decorator.py: first-class functions, closures and the    *)
(* three decorators (decorator, reminder, check) of the script.            *)
(*                                                                         *)
(* The interpreter state is explicit: a heap of function objects (the      *)
(* functions made by plain def statements, then the closures made by the   *)
(* factories), the module-level names the script rebinds (div, div2,       *)
(* reminder), a call stack of frames and the standard output of the        *)
(* statement being executed.  Every function body is executed line by      *)
(* line, so the order of effects and the depth of the stack are observable.*)
(***************************************************************************)
EXTENDS Integers, Sequences, FiniteSets

\* ------------------------------------------------------------------ bounds

\* Closures the script may build on top of the def-made functions.
MaxClosures == 2
\* Integer arguments are drawn from 0..MaxNum and the script's own literals.
MaxNum == 2
\* Frames the interpreter may hold (Python's recursion limit, scaled down).
MaxDepth == 6

\* f(5), add_one(f, 3)
SquareArgs == (0 .. MaxNum) \cup {3, 5}
\* div(10, 0), div2(10, 2)
DivArgs == (0 .. MaxNum) \cup {10}
Tags == {"h1", "p"}
Messages == {"Test Headline!", "Another Headline!", "Test Paragraph!"}
DisplayMessages == {"Hi"}

\* ------------------------------------------------------------------ values

None == [t |-> "NoneType", num |-> 0, den |-> 0]
\* The value slot of a call that has not returned.
Pending == [t |-> "pending", num |-> 0, den |-> 0]
PyInt(n) == [t |-> "int", num |-> n, den |-> 1]
Ref(i) == [t |-> "function", num |-> i, den |-> 0]

Abs(n) == IF n < 0 THEN -n ELSE n

RECURSIVE GCD(_, _)
GCD(m, n) == IF n = 0 THEN m ELSE GCD(n, m % n)

\* Python's a / b on ints, b # 0: always a float.  The float is kept as the
\* reduced fraction with a positive denominator (exact for the small operands
\* drawn here).
TrueDiv(a, b) ==
  LET g == GCD(Abs(a), Abs(b))
      s == IF b < 0 THEN -1 ELSE 1
  IN  [t |-> "float", num |-> (s * a) \div g, den |-> (s * b) \div g]

\* ------------------------------------------------- def-made function objects

SquareFn == 1
AddOneFn == 2
ReminderFn == 3
SayHelloFn == 4
Action1Fn == 5
Action2Fn == 6
Action3Fn == 7
DivFn == 8
Div2Fn == 9

Fn(kind) == [kind |-> kind, func |-> 0, cap |-> ""]

StaticHeap ==
  << Fn("square"), Fn("add_one"), Fn("reminder"), Fn("say_hello"),
     Fn("action1"), Fn("action2"), Fn("action3"), Fn("div"), Fn("div2") >>

NStatic == Len(StaticHeap)

\* What each one-line printing function prints.
Says(kind) ==
  CASE kind = "say_hello" -> <<"Hello!">>
    [] kind = "action1" -> <<"I want to buy sth1">>
    [] kind = "action2" -> <<"I want to buy sth2">>
    [] kind = "action3" -> <<"I want to buy sth3">>

PrintingKinds == {"say_hello", "action1", "action2", "action3"}
ZeroArgKinds == PrintingKinds \cup {"inner_func", "wrapper", "inner_method"}

VARIABLES heap, captured, div, div2, reminder, stack, trace, ret, exc, cur, prev

vars == <<heap, captured, div, div2, reminder, stack, trace, ret, exc, cur, prev>>

\* ------------------------------------------------------- the source's bodies

\* line 19: return x * x
square(x) == PyInt(x * x)

\* Variant: the + 1 is left out.
add_one_forgotten(r) == r

\* line 27: ... + 1, applied to what func(num) returned
add_one(r) == [r EXCEPT !.num = @ + r.den]

\* line 34: print("Display:", message)
inner_func(message) == <<"Display:", " ", message>>

\* line 49: print("<{0}>{1}</{0}>".format(tag, msg))
wrap_text(tag, msg) == <<"<", tag, ">", msg, "</", tag, ">">>

\* lines 138 and 163: return a / b
div_body(a, b) == TrueDiv(a, b)
div2_body(a, b) == TrueDiv(a, b)

\* Variant: decorating an already decorated callable adds no second layer.
decorator_flat(func) ==
  IF heap[func].kind = "wrapper"
  THEN heap[func]
  ELSE [kind |-> "wrapper", func |-> func, cap |-> ""]

\* Variant: inside calls div by its name, which by the time of the call is
\* bound to the wrapper being made.
check_by_name(func) == [kind |-> "inside", func |-> Len(heap) + 1, cap |-> ""]

\* The closures the factories return: the captured callable and parameter.
display(message) == [kind |-> "inner_func", func |-> 0, cap |-> message]
html_tag(tag) == [kind |-> "wrap_text", func |-> 0, cap |-> tag]
decorator(func) == [kind |-> "wrapper", func |-> func, cap |-> ""]
reminder_decorator(func) == [kind |-> "inner_method", func |-> func, cap |-> ""]
check(func) == [kind |-> "inside", func |-> func, cap |-> ""]

\* ------------------------------------------------------------- interpreter

Frame(f, a, b, m) == [fn |-> f, pc |-> 0, a |-> a, b |-> b, m |-> m]
\* What happened during the statement being executed, in order: a call (by the
\* caller, of fn, with its arguments), a line printed by a function, a return
\* by a function of a value.
CallEv(caller, f, a, b, m) ==
  [ev |-> "call", by |-> caller, fn |-> f, a |-> a, b |-> b, m |-> m,
   line |-> <<>>, val |-> Pending]
PrintEv(f, line) ==
  [ev |-> "print", by |-> f, fn |-> 0, a |-> 0, b |-> 0, m |-> "",
   line |-> line, val |-> Pending]
RetEv(f, v) ==
  [ev |-> "return", by |-> f, fn |-> 0, a |-> 0, b |-> 0, m |-> "",
   line |-> <<>>, val |-> v]

IsPrint(e) == e.ev = "print"
IsCall(e) == e.ev = "call"
IsReturn(e) == e.ev = "return"

\* The lines a trace wrote to standard output, in order.
Printed(tr) ==
  LET p == SelectSeq(tr, IsPrint) IN [k \in 1 .. Len(p) |-> p[k].line]

NoObs == [name |-> "", fn |-> 0, a |-> 0, b |-> 0, ret |-> Pending, out |-> <<>>, exc |-> "none"]

\* What a caller saw of the last finished call made through div or div2.
Save ==
  IF cur.op = "call" /\ cur.name \in {"div", "div2"} /\ stack = <<>>
  THEN [name |-> cur.name, fn |-> cur.fn, a |-> cur.a, b |-> cur.b,
        ret |-> ret, out |-> Printed(trace), exc |-> exc]
  ELSE prev

Top == stack[Len(stack)]
Rest == SubSeq(stack, 1, Len(stack) - 1)
Idle == exc = "none" /\ stack = <<>>
At(kinds, pc) ==
  /\ exc = "none"
  /\ stack # <<>>
  /\ heap[Top.fn].kind \in kinds
  /\ Top.pc = pc

ZeroArg == {i \in DOMAIN heap : heap[i].kind \in ZeroArgKinds}

Init ==
  /\ heap = StaticHeap
  /\ captured = [i \in 1 .. NStatic |-> 0]
  /\ div = DivFn
  /\ div2 = 0
  /\ reminder = "traditional"
  /\ stack = <<>>
  /\ trace = <<>>
  /\ ret = Pending
  /\ exc = "none"
  /\ cur = [op |-> "init", name |-> "", fn |-> 0, a |-> 0, b |-> 0, m |-> ""]
  /\ prev = NoObs

\* A factory call at module level: the closure is made and returned; the
\* factory's body holds only the nested def and the return.  captured keeps,
\* per closure, the argument the factory was called with.
Compose(obj, arg, nm) ==
  /\ Idle
  /\ Len(heap) < NStatic + MaxClosures
  /\ heap' = Append(heap, obj)
  /\ captured' = Append(captured, arg)
  /\ ret' = Ref(Len(heap) + 1)
  /\ trace' = <<>>
  /\ cur' = [op |-> "compose", name |-> nm, fn |-> Len(heap) + 1,
             a |-> 0, b |-> 0, m |-> ""]
  /\ prev' = Save
  /\ UNCHANGED <<stack, exc, reminder>>

\* A call at module level.
StartCall(nm, f, a, b, m) ==
  /\ Idle
  /\ stack' = <<Frame(f, a, b, m)>>
  /\ trace' = <<CallEv(0, f, a, b, m)>>
  /\ ret' = Pending
  /\ cur' = [op |-> "call", name |-> nm, fn |-> f, a |-> a, b |-> b, m |-> m]
  /\ prev' = Save
  /\ UNCHANGED <<heap, captured, div, div2, reminder, exc>>

\* The running function calls f and resumes at its next line.
CallFrom(f, a, b, m) ==
  /\ Len(stack) < MaxDepth
  /\ stack' = Append(Append(Rest, [Top EXCEPT !.pc = @ + 1]), Frame(f, a, b, m))
  /\ trace' = Append(trace, CallEv(Top.fn, f, a, b, m))
  /\ UNCHANGED <<heap, captured, div, div2, reminder, ret, exc, cur, prev>>

\* The running function prints a line and goes to its next line.
PrintLine(line) ==
  /\ stack' = Append(Rest, [Top EXCEPT !.pc = @ + 1])
  /\ trace' = Append(trace, PrintEv(Top.fn, line))
  /\ UNCHANGED <<heap, captured, div, div2, reminder, ret, exc, cur, prev>>

\* The running function returns v.
Return(v) ==
  /\ stack' = Rest
  /\ trace' = Append(trace, RetEv(Top.fn, v))
  /\ ret' = v
  /\ UNCHANGED <<heap, captured, div, div2, reminder, exc, cur, prev>>

\* The running function prints a line and falls off its end (returns None).
PrintAndReturn(line) ==
  /\ stack' = Rest
  /\ trace' = Append(Append(trace, PrintEv(Top.fn, line)), RetEv(Top.fn, None))
  /\ ret' = None
  /\ UNCHANGED <<heap, captured, div, div2, reminder, exc, cur, prev>>

\* An exception no frame handles: the script stops.
Raise(e) ==
  /\ stack' = <<>>
  /\ exc' = e
  /\ UNCHANGED <<heap, captured, div, div2, reminder, trace, ret, cur, prev>>

\* ------------------------------------------- 1. first-class functions

\* line 23: print(f(5)), f = square
CallSquare(x) == StartCall("f", SquareFn, x, 0, "")

\* line 19
SquareBody == At({"square"}, 0) /\ Return(square(Top.a))

\* line 29: print(add_one(f, 3))
CallAddOne(func, num) == StartCall("add_one", AddOneFn, func, num, "")

\* line 27: func(num) ...
AddOneCall == At({"add_one"}, 0) /\ CallFrom(Top.a, Top.b, 0, "")

\* line 27: return ... + 1
AddOneReturn == At({"add_one"}, 1) /\ Return(add_one(ret))

\* line 37: message1 = display("Hi")
Display(message) == Compose(display(message), message, "message1") /\ UNCHANGED <<div, div2>>

\* line 34
InnerFunc == At({"inner_func"}, 0) /\ PrintAndReturn(inner_func(heap[Top.fn].cap))

\* lines 52, 56: print_h1 = html_tag("h1"), print_p = html_tag("p")
HtmlTag(tag) == Compose(html_tag(tag), tag, "print_") /\ UNCHANGED <<div, div2>>

\* lines 53, 54, 57: print_h1("Test Headline!") ...
CallWrapText(w, msg) == heap[w].kind = "wrap_text" /\ StartCall("print_", w, 0, 0, msg)

\* Variant: the tag is one module-level variable, written by every html_tag call.
LastTag(w) ==
  LET made == {i \in DOMAIN heap : heap[i].kind = "wrap_text"}
  IN  heap[CHOOSE i \in made : \A j \in made : j <= i].cap

\* The tag a wrap_text closure reads: its own cell.
CapturedTag(w) == heap[w].cap

\* line 49
WrapText == At({"wrap_text"}, 0) /\ PrintAndReturn(wrap_text(CapturedTag(Top.fn), Top.m))

\* ------------------------------------------------------- 2. decorators

\* lines 84-85: @decorator over a zero-argument callable
Decorator(func) == Compose(decorator(func), func, "decorator") /\ UNCHANGED <<div, div2>>

\* lines 38, 119: a zero-argument callable is called at module level
Invoke(f) == StartCall("", f, 0, 0, "")

\* line 78
WrapperBefore == At({"wrapper"}, 0) /\ PrintLine(<<"Before function">>)

\* Variant: func is named but not called.
WrapperCallForgotten ==
  /\ At({"wrapper"}, 1)
  /\ stack' = Append(Rest, [Top EXCEPT !.pc = @ + 1])
  /\ UNCHANGED <<heap, captured, div, div2, reminder, trace, ret, exc, cur, prev>>

\* line 79
WrapperCall == At({"wrapper"}, 1) /\ CallFrom(heap[Top.fn].func, 0, 0, "")

\* line 80
WrapperAfter == At({"wrapper"}, 2) /\ PrintAndReturn(<<"After function">>)

\* lines 86, 94, 97, 117: the one-line bodies
Say == At(PrintingKinds, 0) /\ PrintAndReturn(Says(heap[Top.fn].kind))

\* Variant: reminder(func) runs func at once under either def.
ReminderEager(func) == StartCall("reminder", ReminderFn, func, 0, "")

\* lines 99, 103, 115: reminder(func), under whichever def the name holds
Reminder(func) ==
  IF reminder = "traditional"
  THEN StartCall("reminder", ReminderFn, func, 0, "")
  ELSE Compose(reminder_decorator(func), func, "reminder") /\ UNCHANGED <<div, div2>>

\* line 90
ReminderCall == At({"reminder"}, 0) /\ CallFrom(Top.a, 0, 0, "")

\* line 91
ReminderPrint == At({"reminder"}, 1) /\ PrintAndReturn(<<"Don't forget...">>)

\* line 109: the second def rebinds the name reminder
DefReminder ==
  /\ Idle
  /\ reminder = "traditional"
  /\ reminder' = "decorator"
  /\ trace' = <<>>
  /\ ret' = Pending
  /\ cur' = [op |-> "def", name |-> "reminder", fn |-> 0, a |-> 0, b |-> 0, m |-> ""]
  /\ prev' = Save
  /\ UNCHANGED <<heap, captured, div, div2, stack, exc>>

\* line 111
InnerMethodCall == At({"inner_method"}, 0) /\ CallFrom(heap[Top.fn].func, 0, 0, "")

\* line 112
InnerMethodPrint == At({"inner_method"}, 1) /\ PrintAndReturn(<<"Don't forget...">>)

\* ------------------------------------------------ 3. the division guard

\* line 140: div = check(div)
RebindDiv ==
  /\ Compose(check(div), div, "div")
  /\ div' = Len(heap) + 1
  /\ UNCHANGED div2

\* Variant: the decoration is lost and div2 names the plain function.
DecorateDiv2Bare ==
  /\ Idle
  /\ div2 = 0
  /\ div2' = Div2Fn
  /\ trace' = <<>>
  /\ ret' = Pending
  /\ cur' = [op |-> "def", name |-> "div2", fn |-> Div2Fn, a |-> 0, b |-> 0, m |-> ""]
  /\ prev' = Save
  /\ UNCHANGED <<heap, captured, div, reminder, stack, exc>>

\* lines 161-163: @check def div2
DecorateDiv2 ==
  /\ div2 = 0
  /\ Compose(check(Div2Fn), Div2Fn, "div2")
  /\ div2' = Len(heap) + 1
  /\ UNCHANGED div

\* line 141: div(10, 0)
CallDiv(a, b) == StartCall("div", div, a, b, "")

\* lines 165, 166: div2(10, 0), div2(10, 2)
CallDiv2(a, b) == div2 # 0 /\ StartCall("div2", div2, a, b, "")

\* Variant: the comparison is wrong.
GuardedNegative(b) == b < 0

\* line 130: if b == 0
Guarded(b) == b = 0

\* Variant: the guard returns 0.0.
GuardResultZero == TrueDiv(0, 1)

\* line 132: return
GuardResult == None

\* lines 130-132
InsideGuard ==
  /\ At({"inside"}, 0)
  /\ Guarded(Top.b)
  /\ stack' = Rest
  /\ trace' = Append(Append(trace, PrintEv(Top.fn, <<"Can't divide by 0">>)),
                     RetEv(Top.fn, GuardResult))
  /\ ret' = GuardResult
  /\ UNCHANGED <<heap, captured, div, div2, reminder, exc, cur, prev>>

\* line 133: func(a, b)
InsideCall ==
  /\ At({"inside"}, 0)
  /\ ~Guarded(Top.b)
  /\ CallFrom(heap[Top.fn].func, Top.a, Top.b, "")

\* Variant: the result of func(a, b) is not returned.
InsideReturnDropped == At({"inside"}, 1) /\ Return(None)

\* line 133: return ...
InsideReturn == At({"inside"}, 1) /\ Return(ret)

\* line 138
DivBody ==
  /\ At({"div"}, 0)
  /\ IF Top.b = 0 THEN Raise("ZeroDivisionError") ELSE Return(div_body(Top.a, Top.b))

\* line 163
Div2Body ==
  /\ At({"div2"}, 0)
  /\ IF Top.b = 0 THEN Raise("ZeroDivisionError") ELSE Return(div2_body(Top.a, Top.b))

\* --------------------------------------------------------- specifications

\* Sections 1 and 2 of the script, and every factory of the script.
Next ==
  \/ \E x \in SquareArgs : CallSquare(x)
  \/ SquareBody
  \/ \E num \in SquareArgs : CallAddOne(SquareFn, num)
  \/ AddOneCall
  \/ AddOneReturn
  \/ \E message \in DisplayMessages : Display(message)
  \/ InnerFunc
  \/ \E tag \in Tags : HtmlTag(tag)
  \/ \E w \in DOMAIN heap, msg \in Messages : CallWrapText(w, msg)
  \/ WrapText
  \/ \E func \in ZeroArg : Decorator(func)
  \/ \E f \in ZeroArg : Invoke(f)
  \/ WrapperBefore
  \/ WrapperCall
  \/ WrapperAfter
  \/ Say
  \/ \E func \in ZeroArg : Reminder(func)
  \/ ReminderCall
  \/ ReminderPrint
  \/ DefReminder
  \/ InnerMethodCall
  \/ InnerMethodPrint
  \/ RebindDiv
  \/ DecorateDiv2

Spec == Init /\ [][Next]_vars

\* Section 3 of the script: the guarded division under both spellings.
NextCheck ==
  \/ RebindDiv
  \/ DecorateDiv2
  \/ \E a \in DivArgs, b \in DivArgs : CallDiv(a, b)
  \/ \E a \in DivArgs, b \in DivArgs : CallDiv2(a, b)
  \/ InsideGuard
  \/ InsideCall
  \/ InsideReturn
  \/ DivBody
  \/ Div2Body

SpecCheck == Init /\ [][NextCheck]_vars

\* ------------------------------------------------------------- properties

\* A module-level call has finished without an exception.
Done == stack = <<>> /\ cur.op = "call" /\ exc = "none"

Closures == (NStatic + 1) .. Len(heap)

\* What a zero-argument callable prints when it is called once.
RECURSIVE Effects(_)
Effects(i) ==
  LET o == heap[i] IN
  CASE o.kind \in PrintingKinds -> <<Says(o.kind)>>
    [] o.kind = "inner_func" -> <<inner_func(o.cap)>>
    [] o.kind = "wrapper" ->
         <<<<"Before function">>>> \o Effects(o.func) \o <<<<"After function">>>>
    [] o.kind = "inner_method" -> Effects(o.func) \o <<<<"Don't forget...">>>>

PrintsBy(i) == LET By(e) == IsPrint(e) /\ e.by = i IN SelectSeq(trace, By)
CallsBy(i) == LET By(e) == IsCall(e) /\ e.by = i IN SelectSeq(trace, By)
CallsOf(i) == LET Of(e) == IsCall(e) /\ e.fn = i IN SelectSeq(trace, Of)
ReturnsBy(i) == LET By(e) == IsReturn(e) /\ e.by = i IN SelectSeq(trace, By)

\* C1: one finished call of g = decorator(f) is, in this order and with
\* nothing else by g in between: g prints "Before function", g calls f once,
\* f's own effects happen once and f returns, g prints "After function", g
\* returns None.
C1_PassThrough ==
  (Done /\ heap[cur.fn].kind = "wrapper") =>
    LET w == cur.fn
        f == heap[w].func
        n == Len(trace)
    IN  /\ n >= 6
        /\ trace[1] = CallEv(0, w, 0, 0, "")
        /\ trace[2] = PrintEv(w, <<"Before function">>)
        /\ trace[3] = CallEv(w, f, 0, 0, "")
        /\ IsReturn(trace[n - 2]) /\ trace[n - 2].by = f
        /\ trace[n - 1] = PrintEv(w, <<"After function">>)
        /\ trace[n] = RetEv(w, None)
        /\ \A k \in 4 .. (n - 2) :
             /\ trace[k].by \notin {0, w}
             /\ ~(IsCall(trace[k]) /\ trace[k].fn \in {f, w})
        /\ Printed(SubSeq(trace, 4, n - 2)) = Effects(f)
        /\ ret = None

C1_Witness ==
  /\ Done
  /\ heap[cur.fn].kind = "wrapper"
  /\ heap[cur.fn].func = SayHelloFn
  /\ Printed(trace) = << <<"Before function">>, <<"Hello!">>, <<"After function">> >>

\* A finished call of a guarded wrapper made through the name div or div2.
GuardedCall == cur.op = "call" /\ cur.name \in {"div", "div2"} /\ heap[cur.fn].kind = "inside"

\* C2: g = check(f) called with a zero second argument never enters f, prints
\* "Can't divide by 0" exactly once, returns None and raises nothing.
C2_ZeroShortCircuits ==
  (GuardedCall /\ cur.b = 0) =>
    /\ exc = "none"
    /\ \A k \in DOMAIN stack : stack[k].fn = cur.fn
    /\ \A k \in 2 .. Len(trace) : ~IsCall(trace[k])
    /\ stack = <<>> =>
         /\ ret = None
         /\ ret.t \notin {"int", "float"}
         /\ Printed(trace) = << <<"Can't divide by 0">> >>

C2_Witness ==
  /\ Done
  /\ GuardedCall
  /\ cur.name = "div2" /\ cur.a = 10 /\ cur.b = 0
  /\ ret = None
  /\ Len(PrintsBy(cur.fn)) = 1

\* C3: g = check(f) called with a non-zero second argument calls f(x, y)
\* exactly once, returns what f returned, which is the float x / y, and prints
\* no diagnostic; div2(10, 2) is 5.0.
C3_NonZeroPassesThrough ==
  (GuardedCall /\ cur.b # 0 /\ stack = <<>>) =>
    LET g == cur.fn
        f == heap[g].func
    IN  /\ exc = "none"
        /\ CallsBy(g) = <<CallEv(g, f, cur.a, cur.b, "")>>
        /\ Len(ReturnsBy(f)) = 1
        /\ ret = ReturnsBy(f)[1].val
        /\ ret.t = "float" /\ ret.den > 0 /\ ret.num * cur.b = cur.a * ret.den
        /\ Printed(trace) = <<>>
        /\ (cur.a = 10 /\ cur.b = 2) => ret = [t |-> "float", num |-> 5, den |-> 1]

C3_Witness ==
  /\ Done
  /\ GuardedCall
  /\ cur.name = "div2" /\ cur.a = 10 /\ cur.b = 2
  /\ ret = [t |-> "float", num |-> 5, den |-> 1]

\* C4: a finished html_tag(t)(m) has printed exactly the line <t>m</t>, t being
\* the tag its own factory call was given, whatever other wrappers were built
\* and whatever was called before.
C4_TagIndependent ==
  (cur.op = "call" /\ heap[cur.fn].kind = "wrap_text") =>
    LET t == captured[cur.fn] IN
    /\ exc = "none"
    /\ Printed(trace) =
         IF stack = <<>> THEN << <<"<", t, ">", cur.m, "</", t, ">">> >> ELSE <<>>
    /\ stack = <<>> => ret = None

C4_Witness ==
  /\ Done
  /\ heap[cur.fn].kind = "wrap_text"
  /\ captured[cur.fn] = "h1"
  /\ cur.m = "Test Headline!"
  /\ \E j \in Closures : j > cur.fn /\ heap[j].kind = "wrap_text" /\ captured[j] = "p"
  /\ Printed(trace) = << <<"<", "h1", ">", "Test Headline!", "</", "h1", ">">> >>

\* The wrapper the manual spelling binds: check applied to the original div.
Manual(fn) == fn \in Closures /\ captured[fn] = DivFn

\* C5: the wrapper bound by div = check(div) and the one bound by @check def
\* div2, called with the same arguments, give the caller the same result, the
\* same printed lines and the same exception state.
C5_SugarEquivalent ==
  (/\ stack = <<>>
   /\ cur.op = "call"
   /\ prev.a = cur.a
   /\ prev.b = cur.b
   /\ \/ cur.name = "div2" /\ prev.name = "div" /\ Manual(prev.fn)
      \/ cur.name = "div" /\ Manual(cur.fn) /\ prev.name = "div2")
  => /\ ret = prev.ret
     /\ Printed(trace) = prev.out
     /\ exc = prev.exc

C5_Witness ==
  /\ Done
  /\ cur.name = "div2" /\ prev.name = "div" /\ Manual(prev.fn)
  /\ prev.a = cur.a /\ prev.b = cur.b
  /\ cur.a = 10 /\ cur.b = 0
  /\ Printed(trace) = << <<"Can't divide by 0">> >>

\* A finished call of g = decorator(decorator(f)).
Nested ==
  /\ Done
  /\ heap[cur.fn].kind = "wrapper"
  /\ heap[captured[cur.fn]].kind = "wrapper"

\* C6 as stated: both layers' pre- and post-actions fire, f is called once,
\* and the outer layer's pre-action and post-action each come before the
\* inner layer's.
C6_OuterFirst ==
  Nested =>
    LET outer == cur.fn
        inner == captured[outer]
        f == captured[inner]
    IN  /\ Len(CallsOf(f)) = 1
        /\ \E i, j, k, l \in DOMAIN trace :
             /\ trace[i] = PrintEv(outer, <<"Before function">>)
             /\ trace[j] = PrintEv(inner, <<"Before function">>)
             /\ trace[k] = PrintEv(outer, <<"After function">>)
             /\ trace[l] = PrintEv(inner, <<"After function">>)
             /\ i < j
             /\ k < l

\* C6 amended: both layers' pre- and post-actions fire once each, f is called
\* once, the outer pre-action comes first and the outer post-action last.
C6_Nested ==
  Nested =>
    LET outer == cur.fn
        inner == captured[outer]
        f == captured[inner]
    IN  /\ Len(CallsOf(f)) = 1
        /\ Len(PrintsBy(outer)) = 2
        /\ Len(PrintsBy(inner)) = 2
        /\ \E i, j, c, l, k \in DOMAIN trace :
             /\ trace[i] = PrintEv(outer, <<"Before function">>)
             /\ trace[j] = PrintEv(inner, <<"Before function">>)
             /\ trace[c] = CallEv(inner, f, 0, 0, "")
             /\ trace[l] = PrintEv(inner, <<"After function">>)
             /\ trace[k] = PrintEv(outer, <<"After function">>)
             /\ i < j /\ j < c /\ c < l /\ l < k
             /\ \A p \in DOMAIN trace : IsPrint(trace[p]) => i <= p /\ p <= k

C6_Witness ==
  /\ Nested
  /\ captured[captured[cur.fn]] = SayHelloFn
  /\ Printed(trace) = << <<"Before function">>, <<"Before function">>, <<"Hello!">>,
                         <<"After function">>, <<"After function">> >>

\* The function a chain of guarded wrappers ends at.
RECURSIVE Origin(_, _)
Origin(i, fuel) ==
  IF heap[i].kind # "inside" \/ fuel = 0 THEN i ELSE Origin(heap[i].func, fuel - 1)

\* C7: every guarded wrapper still holds the callable check was given, which
\* is an older object and so never the wrapper itself; the name div, however
\* often rebound, leads to the original div; the stack is never deeper than the
\* wrappers are nested; a call through div with a non-zero divisor ends in
\* exactly one call of the original div and a float.
C7_CapturedFixed ==
  /\ \A i \in Closures :
       heap[i].kind = "inside" =>
         /\ heap[i].func = captured[i]
         /\ heap[i].func \in 1 .. (i - 1)
  /\ Origin(div, Len(heap)) = DivFn
  /\ Len(stack) <= Len(heap) - NStatic + 1
  /\ (stack = <<>> /\ cur.op = "call" /\ cur.name = "div" /\ cur.b # 0) =>
       /\ exc = "none"
       /\ Len(CallsOf(DivFn)) = 1
       /\ ret.t = "float"

C7_Witness ==
  /\ Done
  /\ cur.name = "div" /\ Manual(cur.fn) /\ cur.b # 0
  /\ prev.name = "div" /\ prev.fn = cur.fn
  /\ heap[cur.fn].func = DivFn
  /\ Len(CallsOf(DivFn)) = 1

\* A finished guarded call that legitimately yields zero, the same wrapper's
\* previous call having short-circuited on a zero divisor.
ZeroAfterShortCircuit ==
  /\ Done
  /\ GuardedCall
  /\ cur.a = 0 /\ cur.b # 0
  /\ prev.name = cur.name /\ prev.fn = cur.fn
  /\ prev.b = 0

\* C8 as stated: the result of the short-circuited call and the zero-valued
\* result are the same to the caller.
C8_ResultsAlike == ZeroAfterShortCircuit => prev.ret = ret

\* C8 amended: the short-circuited call returned None and the zero-valued call
\* the float 0.0, so the results differ, as do the printed lines.
C8_ResultsDiffer ==
  ZeroAfterShortCircuit =>
    /\ prev.ret = None
    /\ ret.t = "float" /\ ret.num = 0
    /\ prev.ret # ret
    /\ prev.out = << <<"Can't divide by 0">> >>
    /\ Printed(trace) = <<>>

C8_Witness == ZeroAfterShortCircuit /\ cur.name = "div2" /\ cur.b = 2 /\ prev.a = 10

\* C9: a finished square(x) returned the int x * x; a finished
\* add_one(func, num) called func exactly once, with num, and returned what
\* func returned plus 1; square(5) is 25 and add_one(square, 3) is 10.
C9_SquareAddOne ==
  /\ (Done /\ cur.name = "f") =>
       /\ ret.t = "int" /\ ret.num = cur.a * cur.a
       /\ cur.a = 5 => ret.num = 25
  /\ (Done /\ cur.name = "add_one") =>
       /\ CallsBy(AddOneFn) = <<CallEv(AddOneFn, cur.a, cur.b, 0, "")>>
       /\ Len(CallsOf(cur.a)) = 1
       /\ Len(ReturnsBy(cur.a)) = 1
       /\ ret.t = "int" /\ ret.num = ReturnsBy(cur.a)[1].val.num + 1
       /\ ret.num = cur.b * cur.b + 1
       /\ cur.b = 3 => ret.num = 10

C9_Witness ==
  /\ Done
  /\ cur.name = "add_one" /\ cur.a = SquareFn /\ cur.b = 3
  /\ ret.t = "int" /\ ret.num = 10

\* Lines a closure prints per call of it.
LinesPerCall(kind) == IF kind = "wrapper" THEN 2 ELSE 1

\* C10: a factory call leaves nothing on the stack and nothing printed and
\* returns the new closure; under the second def of reminder, reminder(func)
\* is such a factory call; a line is printed only by a function that has been
\* called, and a closure prints no more lines than its calls account for.
C10_Deferred ==
  /\ cur.op = "compose" =>
       /\ trace = <<>>
       /\ stack = <<>>
       /\ exc = "none"
       /\ cur.fn = Len(heap)
       /\ ret = Ref(Len(heap))
  /\ (cur.name = "reminder" /\ reminder = "decorator") => cur.op \in {"def", "compose"}
  /\ \A k \in DOMAIN trace :
       IsPrint(trace[k]) =>
         \E j \in 1 .. (k - 1) : IsCall(trace[j]) /\ trace[j].fn = trace[k].by
  /\ \A i \in Closures :
       /\ Len(PrintsBy(i)) <= LinesPerCall(heap[i].kind) * Len(CallsOf(i))
       /\ Done => Len(PrintsBy(i)) = LinesPerCall(heap[i].kind) * Len(CallsOf(i))

C10_Witness ==
  /\ cur.op = "compose"
  /\ cur.name = "reminder"
  /\ captured[cur.fn] = Action3Fn
  /\ \E w \in Closures : heap[w].kind = "wrapper" /\ heap[w].func = SayHelloFn
  /\ trace = <<>>

====
